---- MODULE Spec2Model ----
(***************************************************************************)
(* Webhook signature issuance and verification of the Python sample        *)
(* client (docs/api/sample-clients/python-client.py): class                *)
(* WebhookVerifier and the Flask route handle_webhook built by             *)
(* create_flask_webhook_handler.                                           *)
(*                                                                         *)
(* Text (Python str) is a sequence of code points, a byte string a         *)
(* sequence of integers 0..255.  A Python value that may be None is a      *)
(* record [kind, chars].  A call's outcome is a record whose field exc     *)
(* names the exception it raised ("" when it returned).                    *)
(***************************************************************************)
EXTENDS Integers, Sequences, FiniteSets, TLC

VARIABLES verifier, last, sigLog, acceptLog, pc, frame, expected_signature, retval, pair

vars == <<verifier, last, sigLog, acceptLog, pc, frame, expected_signature, retval, pair>>

(***************************************************************************)
(* Bounds of the model.                                                    *)
(***************************************************************************)
MaxSecretLen == 1

MaxPayloadLen == 2

MaxBodyLen == 2

(***************************************************************************)
(* Python values.                                                          *)
(***************************************************************************)
PyNone == [kind |-> "none", chars |-> <<>>]

PyStr(chars) == [kind |-> "str", chars |-> chars]

SeqsUpTo(S, n) == UNION {[1..k -> S] : k \in 0..n}

(***************************************************************************)
(* str.encode('utf-8'): one to four bytes per code point; a lone           *)
(* surrogate (U+D800..U+DFFF) raises UnicodeEncodeError.                   *)
(***************************************************************************)
IsSurrogate(cp) == cp >= 55296 /\ cp <= 57343

EncodeCodePoint(cp) ==
    IF cp < 128 THEN <<cp>>
    ELSE IF cp < 2048 THEN <<192 + (cp \div 64), 128 + (cp % 64)>>
    ELSE IF cp < 65536
         THEN <<224 + (cp \div 4096), 128 + ((cp \div 64) % 64), 128 + (cp % 64)>>
    ELSE <<240 + (cp \div 262144), 128 + ((cp \div 4096) % 64),
           128 + ((cp \div 64) % 64), 128 + (cp % 64)>>

RECURSIVE EncodeChars(_)
EncodeChars(chars) ==
    IF chars = <<>> THEN <<>>
    ELSE EncodeCodePoint(Head(chars)) \o EncodeChars(Tail(chars))

Utf8Encode(chars) ==
    IF \E i \in 1..Len(chars) : IsSurrogate(chars[i])
    THEN [exc |-> "UnicodeEncodeError", bytes |-> <<>>]
    ELSE [exc |-> "", bytes |-> EncodeChars(chars)]

(***************************************************************************)
(* bytes.decode('utf-8', 'replace'), which request.get_data(as_text=True)  *)
(* applies to the body: every maximal ill-formed subsequence becomes one   *)
(* U+FFFD.                                                                 *)
(***************************************************************************)
HasAt(bytes, i, lo, hi) == i <= Len(bytes) /\ bytes[i] >= lo /\ bytes[i] <= hi

DecodeStep(bytes, i) ==
    LET c == bytes[i]
        bad(n) == [cp |-> 65533, next |-> i + n]
    IN  IF c < 128 THEN [cp |-> c, next |-> i + 1]
        ELSE IF c >= 194 /\ c <= 223
        THEN IF HasAt(bytes, i + 1, 128, 191)
             THEN [cp |-> (c - 192) * 64 + (bytes[i + 1] - 128), next |-> i + 2]
             ELSE bad(1)
        ELSE IF c >= 224 /\ c <= 239
        THEN IF ~HasAt(bytes, i + 1, IF c = 224 THEN 160 ELSE 128,
                                     IF c = 237 THEN 159 ELSE 191)
             THEN bad(1)
             ELSE IF ~HasAt(bytes, i + 2, 128, 191) THEN bad(2)
             ELSE [cp |-> (c - 224) * 4096 + (bytes[i + 1] - 128) * 64
                          + (bytes[i + 2] - 128),
                   next |-> i + 3]
        ELSE IF c >= 240 /\ c <= 244
        THEN IF ~HasAt(bytes, i + 1, IF c = 240 THEN 144 ELSE 128,
                                     IF c = 244 THEN 143 ELSE 191)
             THEN bad(1)
             ELSE IF ~HasAt(bytes, i + 2, 128, 191) THEN bad(2)
             ELSE IF ~HasAt(bytes, i + 3, 128, 191) THEN bad(3)
             ELSE [cp |-> (c - 240) * 262144 + (bytes[i + 1] - 128) * 4096
                          + (bytes[i + 2] - 128) * 64 + (bytes[i + 3] - 128),
                   next |-> i + 4]
        ELSE bad(1)

RECURSIVE DecodeFrom(_, _)
DecodeFrom(bytes, i) ==
    IF i > Len(bytes) THEN <<>>
    ELSE LET s == DecodeStep(bytes, i)
         IN  <<s.cp>> \o DecodeFrom(bytes, s.next)

Utf8DecodeReplace(bytes) == DecodeFrom(bytes, 1)

IsValidUtf8(bytes) == Utf8Encode(Utf8DecodeReplace(bytes)).bytes = bytes

(***************************************************************************)
(* Request bodies and the string constants of the handler, as UTF-8 bytes. *)
(***************************************************************************)
\* {"type":"purchase.completed"}
PurchaseBody ==
    <<123, 34, 116, 121, 112, 101, 34, 58, 34, 112, 117, 114, 99, 104,
       97, 115, 101, 46, 99, 111, 109, 112, 108, 101, 116, 101, 100, 34,
       125>>

\* {"type":"content.uploaded","data":{}}
UploadBody ==
    <<123, 34, 116, 121, 112, 101, 34, 58, 34, 99, 111, 110, 116, 101,
       110, 116, 46, 117, 112, 108, 111, 97, 100, 101, 100, 34, 44, 34,
       100, 97, 116, 97, 34, 58, 123, 125, 125>>

\* {"type":"payout.processed"}
PayoutBody ==
    <<123, 34, 116, 121, 112, 101, 34, 58, 34, 112, 97, 121, 111, 117,
       116, 46, 112, 114, 111, 99, 101, 115, 115, 101, 100, 34, 125>>

\* {"type":"refund.issued"}
RefundBody ==
    <<123, 34, 116, 121, 112, 101, 34, 58, 34, 114, 101, 102, 117, 110,
       100, 46, 105, 115, 115, 117, 101, 100, 34, 125>>

\* {"data":{}}
UntypedBody ==
    <<123, 34, 100, 97, 116, 97, 34, 58, 123, 125, 125>>

\* {"type":1}
NumericTypeBody ==
    <<123, 34, 116, 121, 112, 101, 34, 58, 49, 125>>

\* 'type'
KeyType == <<116, 121, 112, 101>>

\* 'purchase.completed'
PurchaseCompleted == <<112, 117, 114, 99, 104, 97, 115, 101, 46, 99, 111, 109, 112, 108, 101, 116, 101, 100>>

\* 'content.uploaded'
ContentUploaded == <<99, 111, 110, 116, 101, 110, 116, 46, 117, 112, 108, 111, 97, 100, 101, 100>>

\* 'payout.processed'
PayoutProcessed == <<112, 97, 121, 111, 117, 116, 46, 112, 114, 111, 99, 101, 115, 115, 101, 100>>

\* 'null'
LitNull == <<110, 117, 108, 108>>

\* 'true'
LitTrue == <<116, 114, 117, 101>>

\* 'false'
LitFalse == <<102, 97, 108, 115, 101>>

SampleBodies ==
    <<PurchaseBody, UploadBody, PayoutBody, RefundBody, UntypedBody, NumericTypeBody>>

(***************************************************************************)
(* hmac.new(key, msg, hashlib.sha256).hexdigest().  SHA-256 is not         *)
(* computed: the MAC is an injective tag of (key, msg) on the keys and     *)
(* messages of the model (a length-framed copy of both, a sample body by   *)
(* its index), zero-padded to the 32 bytes of a SHA-256 digest and written *)
(* as 64 lowercase hexadecimal digits.  Keys of the model hold no zero     *)
(* byte (HMAC pads a short key with zero bytes, so keys that differ only   *)
(* in trailing zero bytes share their MACs).                               *)
(***************************************************************************)
DigestSize == 32

MessageTag(msg) ==
    IF \E i \in DOMAIN SampleBodies : SampleBodies[i] = msg
    THEN <<255, CHOOSE i \in DOMAIN SampleBodies : SampleBodies[i] = msg>>
    ELSE <<Len(msg)>> \o msg

HmacSha256(key, msg) ==
    LET framed == <<Len(key)>> \o key \o MessageTag(msg)
    IN  [i \in 1..DigestSize |-> IF i <= Len(framed) THEN framed[i] ELSE 0]

HexChar(n) == IF n < 10 THEN 48 + n ELSE 87 + n

RECURSIVE HexDigest(_)
HexDigest(bytes) ==
    IF bytes = <<>> THEN <<>>
    ELSE <<HexChar(Head(bytes) \div 16), HexChar(Head(bytes) % 16)>>
         \o HexDigest(Tail(bytes))

(***************************************************************************)
(* hmac.compare_digest(a, b).  Both arguments must be str of ASCII only    *)
(* (or both bytes-like); anything else raises TypeError.  The comparison   *)
(* is CPython's _tscmp: the loop runs over the whole of b whatever a is,   *)
(* and folds every difference into result.  steps counts its iterations.   *)
(***************************************************************************)
IsAscii(chars) == \A i \in 1..Len(chars) : chars[i] < 128

RECURSIVE EarlyExitLoop(_, _, _, _)
EarlyExitLoop(left, right, i, result) ==
    IF i > Len(right) \/ result # 0 THEN [result |-> result, steps |-> i - 1]
    ELSE EarlyExitLoop(left, right, i + 1,
                       IF left[i] # right[i] THEN 1 ELSE result)

RECURSIVE TsCmpLoop(_, _, _, _)
TsCmpLoop(left, right, i, result) ==
    IF i > Len(right) THEN [result |-> result, steps |-> i - 1]
    ELSE TsCmpLoop(left, right, i + 1,
                   IF left[i] # right[i] THEN 1 ELSE result)

\* a comparison that stops at the end of the shorter string
TsCmpPrefix(a, b) ==
    [value |-> \A i \in 1..Len(a) : i <= Len(b) /\ a[i] = b[i], steps |-> Len(a)]

TsCmp(a, b) ==
    LET same == Len(a) = Len(b)
        r == TsCmpLoop(IF same THEN a ELSE b, b, 1, IF same THEN 0 ELSE 1)
    IN  [value |-> r.result = 0, steps |-> r.steps]

compare_digest(a, b) ==
    IF a.kind # "str" \/ b.kind # "str" \/ ~IsAscii(a.chars) \/ ~IsAscii(b.chars)
    THEN [exc |-> "TypeError", value |-> FALSE, steps |-> 0]
    ELSE LET r == TsCmp(a.chars, b.chars)
         IN  [exc |-> "", value |-> r.value, steps |-> r.steps]

(***************************************************************************)
(* class WebhookVerifier.  An instance is its field secret.                *)
(***************************************************************************)
WebhookVerifier(secret) ==
    IF secret.kind # "str"
    THEN [exc |-> "AttributeError", secret |-> <<>>]
    ELSE LET e == Utf8Encode(secret.chars)
         IN  [exc |-> e.exc, secret |-> e.bytes]

generate_signature(self, payload) ==
    IF payload.kind # "str"
    THEN [exc |-> "AttributeError", value |-> <<>>]
    ELSE LET e == Utf8Encode(payload.chars)
         IN  IF e.exc # "" THEN [exc |-> e.exc, value |-> <<>>]
             ELSE [exc |-> "", value |-> HexDigest(HmacSha256(self.secret, e.bytes))]

\* a verifier that refuses a (payload, signature) pair it accepted before
verify_signature_once(self, payload, signature) ==
    LET e == Utf8Encode(payload.chars)
        c == compare_digest(signature, PyStr(HexDigest(HmacSha256(self.secret, e.bytes))))
    IN  [exc |-> c.exc, value |-> c.value /\ <<e.bytes, signature>> \notin acceptLog,
         steps |-> c.steps, fed |-> e.bytes]

\* key and message passed to hmac.new in the wrong order
verify_signature_swapped(self, payload, signature) ==
    LET e == Utf8Encode(payload.chars)
        c == compare_digest(signature, PyStr(HexDigest(HmacSha256(e.bytes, self.secret))))
    IN  [exc |-> c.exc, value |-> c.value, steps |-> c.steps, fed |-> e.bytes]

verify_signature(self, payload, signature) ==
    IF payload.kind # "str"
    THEN [exc |-> "AttributeError", value |-> FALSE, steps |-> 0, fed |-> <<>>]
    ELSE LET e == Utf8Encode(payload.chars)
         IN  IF e.exc # ""
             THEN [exc |-> e.exc, value |-> FALSE, steps |-> 0, fed |-> <<>>]
             ELSE LET expected == HexDigest(HmacSha256(self.secret, e.bytes))
                      c == compare_digest(signature, PyStr(expected))
                  IN  [exc |-> c.exc, value |-> c.value, steps |-> c.steps,
                       fed |-> e.bytes]

(***************************************************************************)
(* json.loads(bytes), which request.get_json() applies to the raw body.    *)
(* The bytes are decoded as UTF-8 first (strictly: ill-formed bytes raise  *)
(* UnicodeDecodeError, a ValueError), then one JSON value is parsed with   *)
(* surrounding whitespace.  A parse result keeps what the handler reads:   *)
(* the kind of the value and, for an object, the value of its member       *)
(* "type" (tkind "absent" when there is none; the last one wins).  Bodies  *)
(* of the model hold no backslash, so strings have no escape sequences.    *)
(***************************************************************************)
JsonFail == [ok |-> FALSE, next |-> 0, kind |-> "", str |-> <<>>,
             tkind |-> "", tstr |-> <<>>]

JsonValue(kind, next) == [ok |-> TRUE, next |-> next, kind |-> kind, str |-> <<>>,
                          tkind |-> "", tstr |-> <<>>]

IsDigit(b) == b >= 48 /\ b <= 57

RECURSIVE SkipWs(_, _)
SkipWs(b, i) ==
    IF i <= Len(b) /\ b[i] \in {32, 9, 10, 13} THEN SkipWs(b, i + 1) ELSE i

RECURSIVE SkipDigits(_, _)
SkipDigits(b, i) ==
    IF i <= Len(b) /\ IsDigit(b[i]) THEN SkipDigits(b, i + 1) ELSE i

StartsWith(b, i, lit) ==
    /\ i + Len(lit) - 1 <= Len(b)
    /\ \A k \in 1..Len(lit) : b[i + k - 1] = lit[k]

\* "..." from the opening quote at i: the index of the closing quote, 0 if none
RECURSIVE StringEnd(_, _)
StringEnd(b, j) ==
    IF j > Len(b) \/ b[j] < 32 \/ b[j] = 92 THEN 0
    ELSE IF b[j] = 34 THEN j
    ELSE StringEnd(b, j + 1)

ParseString(b, i) ==
    LET e == StringEnd(b, i + 1)
    IN  IF e = 0 THEN JsonFail
        ELSE [JsonValue("string", e + 1) EXCEPT !.str = SubSeq(b, i + 1, e - 1)]

\* -? (0 | [1-9][0-9]*) (. [0-9]+)? ([eE] [+-]? [0-9]+)?
ParseNumber(b, i) ==
    LET i1 == IF b[i] = 45 THEN i + 1 ELSE i
        i2 == IF i1 <= Len(b) /\ b[i1] = 48 THEN i1 + 1 ELSE SkipDigits(b, i1)
        f  == IF i2 + 1 <= Len(b) /\ b[i2] = 46 /\ IsDigit(b[i2 + 1])
              THEN SkipDigits(b, i2 + 1) ELSE i2
        s  == IF f + 1 <= Len(b) /\ b[f] \in {69, 101} /\ b[f + 1] \in {43, 45}
              THEN f + 2 ELSE f + 1
        x  == IF f <= Len(b) /\ b[f] \in {69, 101} /\ s <= Len(b) /\ IsDigit(b[s])
              THEN SkipDigits(b, s) ELSE f
    IN  IF i2 = i1 THEN JsonFail ELSE JsonValue("number", x)

RECURSIVE ParseValue(_, _), ParseElements(_, _), ParseMembers(_, _, _, _)
ParseValue(b, i) ==
    IF i > Len(b) THEN JsonFail
    ELSE IF b[i] = 123
    THEN LET j == SkipWs(b, i + 1)
         IN  IF j <= Len(b) /\ b[j] = 125
             THEN [JsonValue("object", j + 1) EXCEPT !.tkind = "absent"]
             ELSE ParseMembers(b, j, "absent", <<>>)
    ELSE IF b[i] = 91
    THEN LET j == SkipWs(b, i + 1)
         IN  IF j <= Len(b) /\ b[j] = 93 THEN JsonValue("array", j + 1)
             ELSE ParseElements(b, j)
    ELSE IF b[i] = 34 THEN ParseString(b, i)
    ELSE IF b[i] = 45 \/ IsDigit(b[i]) THEN ParseNumber(b, i)
    ELSE IF StartsWith(b, i, LitNull) THEN JsonValue("null", i + 4)
    ELSE IF StartsWith(b, i, LitTrue) THEN JsonValue("bool", i + 4)
    ELSE IF StartsWith(b, i, LitFalse) THEN JsonValue("bool", i + 5)
    ELSE JsonFail

\* the elements of an array from its first element at i, to the closing ]
ParseElements(b, i) ==
    LET v == ParseValue(b, i)
        j == SkipWs(b, v.next)
    IN  IF ~v.ok \/ j > Len(b) THEN JsonFail
        ELSE IF b[j] = 93 THEN JsonValue("array", j + 1)
        ELSE IF b[j] = 44 THEN ParseElements(b, SkipWs(b, j + 1))
        ELSE JsonFail

\* the members of an object from its first key at i, to the closing }
ParseMembers(b, i, tkind, tstr) ==
    IF i > Len(b) \/ b[i] # 34 THEN JsonFail
    ELSE LET k == ParseString(b, i)
             c == SkipWs(b, k.next)
         IN  IF ~k.ok \/ c > Len(b) \/ b[c] # 58 THEN JsonFail
             ELSE LET v  == ParseValue(b, SkipWs(b, c + 1))
                      j  == SkipWs(b, v.next)
                      tk == IF k.str = KeyType THEN v.kind ELSE tkind
                      ts == IF k.str = KeyType THEN v.str ELSE tstr
                  IN  IF ~v.ok \/ j > Len(b) THEN JsonFail
                      ELSE IF b[j] = 125
                      THEN [JsonValue("object", j + 1) EXCEPT !.tkind = tk, !.tstr = ts]
                      ELSE IF b[j] = 44 THEN ParseMembers(b, SkipWs(b, j + 1), tk, ts)
                      ELSE JsonFail

JsonLoads(b) ==
    IF ~IsValidUtf8(b) THEN JsonFail
    ELSE LET v == ParseValue(b, SkipWs(b, 1))
         IN  IF v.ok /\ SkipWs(b, v.next) = Len(b) + 1 THEN v ELSE JsonFail

(***************************************************************************)
(* The Flask route.  A request is [signature, body, is_json]: the value of *)
(* request.headers.get('X-Webhook-Signature') (None when the header is     *)
(* missing), the raw body bytes, and whether the mimetype is JSON.         *)
(* An exception that leaves the view is answered by Flask: an HTTP         *)
(* exception with its own status, anything else with 500.                  *)
(***************************************************************************)
\* request.get_data(as_text=True)
get_data_as_text(request) == PyStr(Utf8DecodeReplace(request.body))

\* request.get_json(): with a mimetype that is not JSON, Flask before 2.1
\* (legacy) returns None and Flask from 2.1 on raises 415; a body that does
\* not parse raises 400.
get_json(request, legacy) ==
    LET v == JsonLoads(request.body)
        none == [exc |-> "", kind |-> "null", tkind |-> "", tstr |-> <<>>]
    IN  IF ~request.is_json
        THEN IF legacy THEN none ELSE [none EXCEPT !.exc = "UnsupportedMediaType"]
        ELSE IF ~v.ok THEN [none EXCEPT !.exc = "BadRequest"]
        ELSE [exc |-> "", kind |-> v.kind, tkind |-> v.tkind, tstr |-> v.tstr]

\* the second branch taken for the third event type as well
DispatchCopied(data) ==
    IF data.tkind = "string" /\ data.tstr = PurchaseCompleted THEN "purchase.completed"
    ELSE IF data.tkind = "string" /\ data.tstr \in {ContentUploaded, PayoutProcessed}
    THEN "content.uploaded"
    ELSE "unknown"

\* the if/elif chain on event_type = data.get('type')
Dispatch(data) ==
    IF data.tkind = "string" /\ data.tstr = PurchaseCompleted THEN "purchase.completed"
    ELSE IF data.tkind = "string" /\ data.tstr = ContentUploaded THEN "content.uploaded"
    ELSE IF data.tkind = "string" /\ data.tstr = PayoutProcessed THEN "payout.processed"
    ELSE "unknown"

Response(status, body, trace, ver) ==
    [status |-> status, body |-> body, trace |-> trace, ver |-> ver]

\* verify_signature returned true
Verified(ver) == ver.exc = "" /\ ver.value

\* what follows a successful verification: parse, dispatch, acknowledge
ProcessWebhook(request, legacy, ver) ==
    LET data == get_json(request, legacy)
        seen == <<"verify_signature", "get_json">>
    IN  IF data.exc = "UnsupportedMediaType"
        THEN Response(415, "Unsupported Media Type", seen, ver)
        ELSE IF data.exc = "BadRequest"
        THEN Response(400, "Bad Request", seen, ver)
        ELSE IF data.kind # "object"
        THEN Response(500, "Internal Server Error", seen, ver)
        ELSE Response(200, "received",
                      seen \o <<Dispatch(data), "jsonify_received">>, ver)

\* the early return of the 401 response left out
SkipRejection(request, legacy, ver) ==
    IF ver.exc # ""
    THEN Response(500, "Internal Server Error", <<"verify_signature">>, ver)
    ELSE ProcessWebhook(request, legacy, ver)

AfterVerification(request, legacy, ver) ==
    IF ver.exc # ""
    THEN Response(500, "Internal Server Error", <<"verify_signature">>, ver)
    ELSE IF ~ver.value
    THEN Response(401, "Invalid signature", <<"verify_signature">>, ver)
    ELSE ProcessWebhook(request, legacy, ver)

handle_webhook(self, request, legacy) ==
    AfterVerification(request, legacy,
                      verify_signature(self, get_data_as_text(request),
                                       request.signature))

(***************************************************************************)
(* Inputs.  Secrets and payloads are text over a few code points: ASCII    *)
(* letters, U+00E9 (two bytes in UTF-8) and the lone surrogate U+D800      *)
(* (not encodable).  Bodies are the sample bodies and every short byte     *)
(* string over { } 1, the UTF-8 bytes C3 A9 of U+00E9 and the byte FF,     *)
(* which no UTF-8 text holds.                                              *)
(***************************************************************************)
SecretChars == {107, 233, 55296}

PayloadChars == {97, 98, 233, 55296}

BodyBytes == {123, 125, 49, 195, 169, 255}

SecretInputs == {PyNone} \cup {PyStr(s) : s \in SeqsUpTo(SecretChars, MaxSecretLen)}

Keys == {WebhookVerifier(s).secret : s \in {x \in SecretInputs : WebhookVerifier(x).exc = ""}}

Payloads == {PyStr(s) : s \in SeqsUpTo(PayloadChars, MaxPayloadLen)}

Bodies == SeqsUpTo(BodyBytes, MaxBodyLen) \cup {SampleBodies[i] : i \in DOMAIN SampleBodies}

\* what a sender holding key computes over the bytes msg
Signed(key, msg) == HexDigest(HmacSha256(key, msg))

FlipAt(sig, i) == [sig EXCEPT ![i] = IF sig[i] = 48 THEN 49 ELSE 48]

\* candidates that are no signature: header missing, empty, one character
\* short or long, one character changed, a non-hex and a non-ASCII character
Malformed(sig) ==
    {PyNone, PyStr(<<>>), PyStr(SubSeq(sig, 1, Len(sig) - 1)), PyStr(Append(sig, 48)),
     PyStr(FlipAt(sig, 1)), PyStr(FlipAt(sig, Len(sig))),
     PyStr([sig EXCEPT ![1] = 122]), PyStr([sig EXCEPT ![1] = 233])}

\* candidates presented with payload to the instance self
Candidates(self, payload) ==
    LET e == Utf8Encode(payload.chars)
        bytes == IF e.exc = "" THEN e.bytes ELSE <<>>
    IN  {PyStr(generate_signature(self, p).value) :
            p \in {q \in Payloads : generate_signature(self, q).exc = ""}}
        \cup {PyStr(Signed(k, bytes)) : k \in Keys}
        \cup Malformed(Signed(self.secret, bytes))

\* signature headers delivered with body to the handler of self
Headers(self, body) ==
    {PyStr(Signed(k, body)) : k \in Keys}
    \cup {PyStr(Signed(self.secret, Utf8Encode(Utf8DecodeReplace(body)).bytes))}
    \cup Malformed(Signed(self.secret, body))

Requests(self) ==
    UNION {{[signature |-> h, body |-> b, is_json |-> j] :
               h \in Headers(self, b), j \in BOOLEAN} : b \in Bodies}

(***************************************************************************)
(* State.  verifier is the instance the deployed handler closes over;      *)
(* last is the call in progress with its outcome ("none" between calls).   *)
(***************************************************************************)
NoVerifier == [exists |-> FALSE, secret |-> <<>>]

NoRequest == [signature |-> PyNone, body |-> <<>>, is_json |-> FALSE]

NoGen == [exc |-> "", value |-> <<>>]

NoVer == [exc |-> "", value |-> FALSE, steps |-> 0, fed |-> <<>>]

NoCall ==
    [op |-> "none", secret |-> PyNone, exc |-> "", payload |-> PyNone,
     signature |-> PyNone, request |-> NoRequest, gen |-> NoGen, ver |-> NoVer,
     resp |-> Response(0, "", <<>>, NoVer)]

Idle == last.op = "none"

NoPair == [stage |-> 0, payload |-> PyNone, i |-> 0, j |-> 0,
           first |-> NoVer, second |-> NoVer]

Threads == {1, 2}

NoFrame == [op |-> "none", payload |-> PyNone, signature |-> PyNone]

NoRet == [exc |-> "", value |-> FALSE, sig |-> <<>>]

Logs == <<sigLog, acceptLog>>

Calls == <<pc, frame, expected_signature, retval>>

Others == <<Logs, Calls, pair>>

NoLogs == sigLog = {} /\ acceptLog = {}

NoCalls ==
    /\ pc = [t \in Threads |-> "idle"]
    /\ frame = [t \in Threads |-> NoFrame]
    /\ expected_signature = [t \in Threads |-> <<>>]
    /\ retval = [t \in Threads |-> NoRet]

InitOthers == NoLogs /\ NoCalls /\ pair = NoPair

\* the instances that can be constructed
Instances == {[exists |-> TRUE, secret |-> k] : k \in Keys}

Init ==
    /\ verifier = NoVerifier
    /\ last = NoCall
    /\ InitOthers

\* create_flask_webhook_handler(secret): a failed construction leaves no app
CreateHandler ==
    /\ Idle
    /\ \E secret \in SecretInputs :
          LET v == WebhookVerifier(secret)
          IN  /\ verifier' = IF v.exc = "" THEN [exists |-> TRUE, secret |-> v.secret]
                             ELSE NoVerifier
              /\ last' = [NoCall EXCEPT !.op = "create_flask_webhook_handler",
                                        !.secret = secret, !.exc = v.exc]
    /\ UNCHANGED Others

\* a direct call verifier.generate_signature(payload)
GenerateSignature ==
    /\ Idle
    /\ verifier.exists
    /\ \E payload \in Payloads :
          last' = [NoCall EXCEPT !.op = "generate_signature", !.payload = payload,
                                 !.gen = generate_signature(verifier, payload)]
    /\ UNCHANGED <<verifier, Others>>

\* a direct call verifier.verify_signature(payload, signature)
VerifySignature ==
    /\ Idle
    /\ verifier.exists
    /\ \E payload \in Payloads :
          \E signature \in Candidates(verifier, payload) :
              last' = [NoCall EXCEPT !.op = "verify_signature", !.payload = payload,
                                     !.signature = signature,
                                     !.ver = verify_signature(verifier, payload, signature)]
    /\ UNCHANGED <<verifier, Others>>

\* one POST /webhooks, from the request to its response
HandleWebhook ==
    /\ Idle
    /\ verifier.exists
    /\ \E request \in Requests(verifier), legacy \in BOOLEAN :
          last' = [NoCall EXCEPT !.op = "handle_webhook", !.request = request,
                                 !.resp = handle_webhook(verifier, request, legacy)]
    /\ UNCHANGED <<verifier, Others>>

\* the call returns (the response is sent)
Return ==
    /\ ~Idle
    /\ last' = NoCall
    /\ UNCHANGED <<verifier, Others>>

Next ==
    \/ CreateHandler
    \/ GenerateSignature
    \/ VerifySignature
    \/ HandleWebhook
    \/ Return

Spec == Init /\ [][Next]_vars

(***************************************************************************)
(* Two verifications of one payload with candidates of the full length     *)
(* that differ from the expected signature at position i and at position   *)
(* j > i.                                                                  *)
(***************************************************************************)
TimingPayloads == {PyStr(<<>>), PyStr(<<97, 233>>)}

Expected(payload) == generate_signature(verifier, payload).value

TimingInit ==
    /\ verifier \in Instances
    /\ last = NoCall
    /\ InitOthers

TimingFirst ==
    /\ pair.stage = 0
    /\ \E payload \in TimingPayloads, i \in 1..(2 * DigestSize) :
          pair' = [NoPair EXCEPT
                      !.stage = 1, !.payload = payload, !.i = i,
                      !.first = verify_signature(verifier, payload,
                                                 PyStr(FlipAt(Expected(payload), i)))]
    /\ UNCHANGED <<verifier, last, Logs, Calls>>

TimingSecond ==
    /\ pair.stage = 1
    /\ \E j \in (pair.i + 1)..(2 * DigestSize) :
          pair' = [pair EXCEPT
                      !.stage = 2, !.j = j,
                      !.second = verify_signature(verifier, pair.payload,
                                                  PyStr(FlipAt(Expected(pair.payload), j)))]
    /\ UNCHANGED <<verifier, last, Logs, Calls>>

TimingNext == TimingFirst \/ TimingSecond

SpecTiming == TimingInit /\ [][TimingNext]_vars

(***************************************************************************)
(* Two threads calling generate_signature and verify_signature on one      *)
(* instance.  A call reads self.secret when it computes the MAC into its   *)
(* local expected_signature, and returns in a later step.                  *)
(***************************************************************************)
ConcPayloads == {PyStr(<<97>>), PyStr(<<233>>), PyStr(<<55296>>)}

ConcSignatures ==
    {PyNone} \cup {PyStr(Expected(p)) : p \in {PyStr(<<97>>), PyStr(<<233>>)}}

\* the local variables of a call live in the frame of that call
SharedSlot(t) == 1

LocalOf(t) == t

ConcInit ==
    /\ verifier \in Instances
    /\ last = NoCall
    /\ InitOthers

CallGenerate(t) ==
    /\ pc[t] = "idle"
    /\ \E payload \in ConcPayloads :
          frame' = [frame EXCEPT ![t] = [op |-> "generate_signature",
                                         payload |-> payload, signature |-> PyNone]]
    /\ pc' = [pc EXCEPT ![t] = "called"]
    /\ UNCHANGED <<verifier, last, Logs, expected_signature, retval, pair>>

CallVerify(t) ==
    /\ pc[t] = "idle"
    /\ \E payload \in ConcPayloads, signature \in ConcSignatures :
          frame' = [frame EXCEPT ![t] = [op |-> "verify_signature",
                                         payload |-> payload, signature |-> signature]]
    /\ pc' = [pc EXCEPT ![t] = "called"]
    /\ UNCHANGED <<verifier, last, Logs, expected_signature, retval, pair>>

\* hmac.new(self.secret, payload.encode('utf-8'), hashlib.sha256).hexdigest()
ComputeMac(t) ==
    /\ pc[t] = "called"
    /\ LET e == Utf8Encode(frame[t].payload.chars)
       IN  IF e.exc # ""
           THEN /\ retval' = [retval EXCEPT ![t] = [NoRet EXCEPT !.exc = e.exc]]
                /\ pc' = [pc EXCEPT ![t] = "done"]
                /\ UNCHANGED expected_signature
           ELSE /\ expected_signature' =
                       [expected_signature EXCEPT
                           ![LocalOf(t)] = HexDigest(HmacSha256(verifier.secret, e.bytes))]
                /\ pc' = [pc EXCEPT ![t] = "computed"]
                /\ UNCHANGED retval
    /\ UNCHANGED <<verifier, last, Logs, frame, pair>>

\* return the digest, or hmac.compare_digest(signature, expected_signature)
Finish(t) ==
    /\ pc[t] = "computed"
    /\ LET mine == expected_signature[LocalOf(t)]
           c == compare_digest(frame[t].signature, PyStr(mine))
       IN  retval' = [retval EXCEPT ![t] =
                         IF frame[t].op = "generate_signature"
                         THEN [exc |-> "", value |-> FALSE, sig |-> mine]
                         ELSE [exc |-> c.exc, value |-> c.value, sig |-> <<>>]]
    /\ pc' = [pc EXCEPT ![t] = "done"]
    /\ UNCHANGED <<verifier, last, Logs, frame, expected_signature, pair>>

Leave(t) ==
    /\ pc[t] = "done"
    /\ pc' = [pc EXCEPT ![t] = "idle"]
    /\ frame' = [frame EXCEPT ![t] = NoFrame]
    /\ retval' = [retval EXCEPT ![t] = NoRet]
    /\ expected_signature' = [expected_signature EXCEPT ![LocalOf(t)] = <<>>]
    /\ UNCHANGED <<verifier, last, Logs, pair>>

ConcNext ==
    \E t \in Threads :
        CallGenerate(t) \/ CallVerify(t) \/ ComputeMac(t) \/ Finish(t) \/ Leave(t)

SpecConc == ConcInit /\ [][ConcNext]_vars

(***************************************************************************)
(* One deployed handler over a sequence of calls and deliveries.  sigLog   *)
(* keeps every (payload, signature) generate_signature returned and        *)
(* acceptLog every (body, signature) a delivery was verified with.         *)
(***************************************************************************)
ReplayPayloads == {PyStr(<<>>), PyStr(<<97>>), PyStr(<<233>>)}

ReplayBodies == {<<>>, <<123, 125>>, <<195, 169>>, PurchaseBody}

ReplayRequests ==
    {[signature |-> h, body |-> b, is_json |-> TRUE] :
        h \in {PyNone, PyStr(Signed(verifier.secret, <<123, 125>>)),
               PyStr(Signed(verifier.secret, <<195, 169>>)),
               PyStr(Signed(verifier.secret, PurchaseBody))},
        b \in ReplayBodies}

ReplayInit ==
    /\ verifier \in Instances
    /\ last = NoCall
    /\ InitOthers

ReplayGenerate ==
    /\ Idle
    /\ \E payload \in ReplayPayloads :
          LET g == generate_signature(verifier, payload)
          IN  /\ last' = [NoCall EXCEPT !.op = "generate_signature",
                                        !.payload = payload, !.gen = g]
              /\ sigLog' = sigLog \cup {<<payload, g.value>>}
    /\ UNCHANGED <<verifier, acceptLog, Calls, pair>>

ReplayVerify ==
    /\ Idle
    /\ \E payload \in ReplayPayloads :
          \E signature \in {PyNone} \cup {PyStr(e[2]) : e \in sigLog} :
              last' = [NoCall EXCEPT !.op = "verify_signature", !.payload = payload,
                                     !.signature = signature,
                                     !.ver = verify_signature(verifier, payload, signature)]
    /\ UNCHANGED <<verifier, Logs, Calls, pair>>

\* a delivery; last.exc is "replay" when the pair was verified before
ReplayHandle ==
    /\ Idle
    /\ \E request \in ReplayRequests :
          last' = [NoCall EXCEPT
                      !.op = "handle_webhook", !.request = request,
                      !.resp = handle_webhook(verifier, request, FALSE),
                      !.exc = IF <<request.body, request.signature>> \in acceptLog
                              THEN "replay" ELSE ""]
    /\ acceptLog' = IF last'.resp.ver.exc = "" /\ last'.resp.ver.value
                    THEN acceptLog \cup {<<last'.request.body, last'.request.signature>>}
                    ELSE acceptLog
    /\ UNCHANGED <<verifier, sigLog, Calls, pair>>

ReplayReturn ==
    /\ ~Idle
    /\ last' = NoCall
    /\ UNCHANGED <<verifier, Others>>

ReplayNext == ReplayGenerate \/ ReplayVerify \/ ReplayHandle \/ ReplayReturn

SpecReplay == ReplayInit /\ [][ReplayNext]_vars

(***************************************************************************)
(* Claims checked under Spec.                                              *)
(***************************************************************************)
Handled == last.op = "handle_webhook"

Downstream ==
    {"get_json", "purchase.completed", "content.uploaded", "payout.processed",
     "unknown", "jsonify_received"}

\* C1: a request whose verification returned false gets the 401 'Invalid
\* signature' response and none of the downstream steps runs; a downstream
\* step runs only after a verification that returned true.
C1_RejectBeforeProcessing ==
    Handled =>
        LET r == last.resp
        IN  /\ (r.ver.exc = "" /\ ~r.ver.value) =>
                   /\ r.status = 401
                   /\ r.body = "Invalid signature"
                   /\ r.trace = <<"verify_signature">>
            /\ (\E i \in 1..Len(r.trace) : r.trace[i] \in Downstream) => Verified(r.ver)
            /\ r.ver = verify_signature(verifier, get_data_as_text(last.request),
                                        last.request.signature)

\* a well-formed signature of another key is rejected with 401
C1_Witness ==
    /\ Handled
    /\ last.resp.status = 401
    /\ \E k \in Keys : /\ k # verifier.secret
                       /\ last.request.signature = PyStr(Signed(k, last.request.body))

\* C2: verify_signature(P, generate_signature(P)) on one instance is true,
\* for every secret and every payload generate_signature signs.
C2_RoundTrip ==
    LET g == generate_signature(verifier, last.payload)
    IN  (last.op = "verify_signature" /\ g.exc = "" /\ last.signature = PyStr(g.value))
            => Verified(last.ver)

\* the round trip of a payload with a two-byte character under a two-byte key
C2_Witness ==
    /\ last.op = "verify_signature"
    /\ verifier.secret = <<195, 169>>
    /\ last.payload = PyStr(<<233, 97>>)
    /\ last.signature = PyStr(generate_signature(verifier, last.payload).value)
    /\ Verified(last.ver)

\* C3 (as claimed): verify_signature returns false and never raises, whatever
\* the candidate, the absent header value included, and the handler answers a
\* request with such a candidate with 401 (stated for a non-empty secret).
C3_MalformedCandidateIsFalse ==
    /\ (last.op = "verify_signature" /\ Utf8Encode(last.payload.chars).exc = ""
            /\ verifier.secret # <<>>)
           => last.ver.exc = ""
    /\ (Handled /\ verifier.secret # <<>>
            /\ last.request.signature \in Malformed(Signed(verifier.secret,
                                                                last.request.body)))
           => last.resp.status = 401

\* C4 (as claimed): construction with an absent or empty secret fails, and no
\* instance holds an empty secret.
C4_NoEmptySecret ==
    /\ verifier.exists => verifier.secret # <<>>
    /\ (last.op = "create_flask_webhook_handler"
            /\ last.secret \in {PyNone, PyStr(<<>>)}) => last.exc # ""

\* C5: verify_signature(P, c) is true only if c is the whole string
\* generate_signature(P) returns on the same instance.
C5_ExactMatchOnly ==
    (last.op = "verify_signature" /\ Verified(last.ver))
        => LET g == generate_signature(verifier, last.payload)
           IN  g.exc = "" /\ last.signature = PyStr(g.value)

\* a signature issued for a payload that differs in one character, or under
\* another key, has been presented and found false
C5_Witness ==
    /\ last.op = "verify_signature"
    /\ last.ver.exc = "" /\ ~last.ver.value
    /\ \/ \E p \in Payloads :
             /\ Len(p.chars) = Len(last.payload.chars)
             /\ Cardinality({i \in 1..Len(p.chars) : p.chars[i] # last.payload.chars[i]}) = 1
             /\ generate_signature(verifier, p).exc = ""
             /\ last.signature = PyStr(generate_signature(verifier, p).value)
             /\ verifier.secret = <<107>>
       \/ /\ verifier.secret = <<>>
          /\ last.payload = PyStr(<<97>>)
          /\ last.signature = PyStr(Signed(<<107>>, <<97>>))

\* C6 (as claimed): the bytes fed to the HMAC are the raw body bytes, and a
\* signature computed over the raw body bytes with the handler's key verifies
\* (stated for a non-empty secret).
C6_RawBytesVerified ==
    (Handled /\ verifier.secret # <<>>) =>
        /\ last.resp.ver.fed = last.request.body
        /\ last.request.signature = PyStr(Signed(verifier.secret, last.request.body))
               => Verified(last.resp.ver)

Alone(f) ==
    IF f.op = "generate_signature"
    THEN LET g == generate_signature(verifier, f.payload)
         IN  [exc |-> g.exc, value |-> FALSE, sig |-> g.value]
    ELSE LET v == verify_signature(verifier, f.payload, f.signature)
         IN  [exc |-> v.exc, value |-> v.value, sig |-> <<>>]

\* C7: under every interleaving of two threads' calls on one instance no step
\* changes the instance, and every call returns what it returns alone.
C7_Stateless ==
    /\ [][verifier' = verifier]_vars
    /\ [](\A t \in Threads : pc[t] = "done" => retval[t] = Alone(frame[t]))

\* thread 1 has returned true while thread 2, verifying another payload, had
\* its MAC computed
C7_Witness ==
    /\ pc[1] = "done"
    /\ pc[2] = "computed"
    /\ frame[1].op = "verify_signature"
    /\ frame[2].op = "verify_signature"
    /\ frame[1].payload # frame[2].payload
    /\ retval[1].value

\* C8: generate_signature returns one string per payload, however many calls
\* and deliveries came before, and a (body, signature) pair that was verified
\* once is verified again at every later delivery.
C8_Deterministic ==
    /\ \A e1 \in sigLog, e2 \in sigLog : e1[1] = e2[1] => e1[2] = e2[2]
    /\ (last.op = "generate_signature" /\ last.gen.exc = "")
           => \A e \in sigLog : e[1] = last.payload => e[2] = last.gen.value
    /\ (Handled /\ last.exc = "replay") => Verified(last.resp.ver)

\* a pair that was verified before has been delivered again and acknowledged
C8_Witness ==
    /\ Handled
    /\ last.exc = "replay"
    /\ last.request.body = PurchaseBody
    /\ last.resp.status = 200
    /\ Cardinality(sigLog) >= 2

\* C9: two candidates of the full length that first differ from the expected
\* signature at different positions cost the same number of comparison steps.
C9_ConstantTime ==
    pair.stage = 2 =>
        /\ pair.first.exc = "" /\ ~pair.first.value
        /\ pair.second.exc = "" /\ ~pair.second.value
        /\ pair.first.steps = pair.second.steps

\* candidates differing at the first and at the last position were compared
C9_Witness ==
    /\ pair.stage = 2
    /\ pair.i = 1
    /\ pair.j = 2 * DigestSize
    /\ pair.first.steps = 2 * DigestSize
    /\ pair.second.steps = 2 * DigestSize

====
